---- MODULE Spec2Model ----
(***************************************************************************)
(* Model of the invoice QC validation engine (backend/invoice_qc).         *)
(*                                                                         *)
(* Representation choices:                                                 *)
(*  - a date is its proleptic ordinal (date.toordinal(), >= 1); an absent  *)
(*    Optional[date] is NoneDate (0, which is no date's ordinal);          *)
(*  - an amount is an integer-valued float, so Python's float arithmetic   *)
(*    on it (sums, differences, abs) is exact; the percentage tolerances   *)
(*    are compared in units of 1/TolScale;                                 *)
(*  - a message is the string the f-string builds;                         *)
(*  - the process clock is a tick counter: datetime.utcnow() reads it and  *)
(*    date.today() is the day it falls in.                                 *)
(***************************************************************************)
EXTENDS Integers, Sequences, FiniteSets, TLC

VARIABLES seen_invoices, clock, last, ret, prev,
          discipline, engine_seen, threads, lock, inflight

\* the threads of control that run validate_batch concurrently
concvars == <<discipline, engine_seen, threads, lock>>

vars == <<seen_invoices, clock, last, ret, prev,
          discipline, engine_seen, threads, lock, inflight>>

(***************************************************************************)
(* Bounds of the model.                                                    *)
(***************************************************************************)
MaxBatch == 3
MaxClock == 2
MaxRerun == 2

(***************************************************************************)
(* Program constants.                                                      *)
(***************************************************************************)
DateRangeDays == 3650
OldInvoiceDays == 365
TolScale == 1000
LineTolerance == 10
GrossTolerance == 5

(***************************************************************************)
(* Environment: the clock.                                                 *)
(***************************************************************************)
TicksPerDay == 2
Day0 == 739000

date_today(c) == Day0 + (c \div TicksPerDay)

utcnow(c) == c

(***************************************************************************)
(* Python values.                                                          *)
(***************************************************************************)
NoneStr == "<None>"
NoneDate == 0
NoneNum == -1000000

Currency == {"EUR", "USD", "GBP", "INR"}

StrFields == {"invoice_number", "seller_name", "buyer_name", "currency"}
DateFields == {"invoice_date"}

REQUIRED_FIELDS ==
    << "invoice_number", "invoice_date", "seller_name", "buyer_name",
       "currency", "net_total", "tax_amount", "gross_total" >>

\* value is None, for the value of field f
IsNone(f, v) ==
    IF f \in StrFields THEN v = NoneStr
    ELSE IF f \in DateFields THEN v = NoneDate
    ELSE v = NoneNum

\* str.strip() on the strings of the model
Strip(s) ==
    CASE s = " " -> ""
      [] s = "   " -> ""
      [] s = " Acme GmbH " -> "Acme GmbH"
      [] OTHER -> s

\* str(d) for a date or None: one string per date
StrDate(d) == IF d = NoneDate THEN "None" ELSE "date#" \o ToString(d)

\* f"{v:.2f}" and f"{v}" for an integer-valued float
Fmt2(v) == ToString(v) \o ".00"
FmtFloat(v) == ToString(v) \o ".0"

Abs(v) == IF v < 0 THEN -v ELSE v

ValidationError(rule, message, severity) ==
    [rule |-> rule, message |-> message, severity |-> severity]

RECURSIVE SumLineTotals(_)
SumLineTotals(items) ==
    IF items = <<>> THEN 0
    ELSE items[1].line_total + SumLineTotals(Tail(items))

(***************************************************************************)
(* Individual rule implementations.                                        *)
(***************************************************************************)
\* variant: "if not value", so a zero total is missing too
RECURSIVE RequiredFrom_Falsy(_, _)
RequiredFrom_Falsy(invoice, i) ==
    IF i > Len(REQUIRED_FIELDS) THEN <<>>
    ELSE LET field_name == REQUIRED_FIELDS[i]
             value == invoice[field_name]
             here ==
                 IF IsNone(field_name, value)
                    \/ (field_name \notin StrFields /\ value = 0)
                 THEN << ValidationError("required_field_missing",
                            "Missing required field: " \o field_name, "error") >>
                 ELSE IF field_name \in StrFields /\ Strip(value) = ""
                 THEN << ValidationError("required_field_empty",
                            "Required field is empty: " \o field_name, "error") >>
                 ELSE <<>>
         IN here \o RequiredFrom_Falsy(invoice, i + 1)

RECURSIVE RequiredFrom(_, _)
RequiredFrom(invoice, i) ==
    IF i > Len(REQUIRED_FIELDS) THEN <<>>
    ELSE LET field_name == REQUIRED_FIELDS[i]
             value == invoice[field_name]
             here ==
                 IF IsNone(field_name, value)
                 THEN << ValidationError("required_field_missing",
                            "Missing required field: " \o field_name, "error") >>
                 ELSE IF field_name \in StrFields /\ Strip(value) = ""
                 THEN << ValidationError("required_field_empty",
                            "Required field is empty: " \o field_name, "error") >>
                 ELSE <<>>
         IN here \o RequiredFrom(invoice, i + 1)

_check_required_fields(invoice) == RequiredFrom(invoice, 1)

\* a truthy value in a date field that is not a datetime.date (a string, say)
NotADate == -1

\* isinstance(value, date)
IsDate(value) == value >= 1

InvalidDateFormat(field_name, value) ==
    ValidationError("invalid_date_format",
        field_name \o " has invalid type/value: " \o StrDate(value), "error")

\* the due_date part of _check_dates
DueDateFormat(invoice) ==
    IF invoice.due_date # NoneDate /\ ~ IsDate(invoice.due_date)
    THEN << InvalidDateFormat("due_date", invoice.due_date) >>
    ELSE <<>>

\* variant: only dates in the past are out of range
_check_dates_PastOnly(invoice, today) ==
    (IF invoice.invoice_date = NoneDate THEN <<>>
     ELSE IF ~ IsDate(invoice.invoice_date)
     THEN << InvalidDateFormat("invoice_date", invoice.invoice_date) >>
     ELSE IF today - invoice.invoice_date > DateRangeDays
     THEN << ValidationError("date_out_of_range",
                "invoice_date looks unrealistic: " \o StrDate(invoice.invoice_date),
                "error") >>
     ELSE <<>>)
    \o DueDateFormat(invoice)

\* a present invoice_date that is no date is reported, a date is range-checked;
\* a present due_date is only type-checked
_check_dates(invoice, today) ==
    (IF invoice.invoice_date = NoneDate THEN <<>>
     ELSE IF ~ IsDate(invoice.invoice_date)
     THEN << InvalidDateFormat("invoice_date", invoice.invoice_date) >>
     ELSE IF Abs(today - invoice.invoice_date) > DateRangeDays
     THEN << ValidationError("date_out_of_range",
                "invoice_date looks unrealistic: " \o StrDate(invoice.invoice_date),
                "error") >>
     ELSE <<>>)
    \o DueDateFormat(invoice)

_check_currency(invoice) ==
    IF invoice.currency \notin Currency
    THEN << ValidationError("invalid_currency",
               "Currency '" \o invoice.currency \o "' is not in the allowed list",
               "error") >>
    ELSE <<>>

\* variant: a difference equal to the tolerance is reported too
_check_line_items_sum_Inclusive(invoice) ==
    IF invoice.line_items = <<>> THEN <<>>
    ELSE LET computed_sum == SumLineTotals(invoice.line_items)
             tolerance == invoice.net_total * LineTolerance
             diff == Abs(computed_sum - invoice.net_total)
         IN IF diff * TolScale >= tolerance
            THEN << ValidationError("line_items_sum_mismatch",
                       "Line items total " \o Fmt2(computed_sum)
                         \o " does not match net_total " \o Fmt2(invoice.net_total)
                         \o ". Diff = " \o Fmt2(diff),
                       "error") >>
            ELSE <<>>

_check_line_items_sum(invoice) ==
    IF invoice.line_items = <<>> THEN <<>>
    ELSE LET computed_sum == SumLineTotals(invoice.line_items)
             tolerance == invoice.net_total * LineTolerance
             diff == Abs(computed_sum - invoice.net_total)
         IN IF diff * TolScale > tolerance
            THEN << ValidationError("line_items_sum_mismatch",
                       "Line items total " \o Fmt2(computed_sum)
                         \o " does not match net_total " \o Fmt2(invoice.net_total)
                         \o ". Diff = " \o Fmt2(diff),
                       "error") >>
            ELSE <<>>

GrossMismatch(invoice, expected_gross) ==
    ValidationError("gross_calculation_mismatch",
        "net_total (" \o Fmt2(invoice.net_total) \o ") + tax_amount ("
          \o Fmt2(invoice.tax_amount) \o ") = " \o Fmt2(expected_gross)
          \o ", but gross_total is " \o Fmt2(invoice.gross_total),
        "error")

\* variant: the tolerance is taken from net_total
_check_gross_calculation_NetTolerance(invoice) ==
    LET expected_gross == invoice.net_total + invoice.tax_amount
        tolerance == invoice.net_total * GrossTolerance
        diff == Abs(expected_gross - invoice.gross_total)
    IN IF diff * TolScale > tolerance
       THEN << GrossMismatch(invoice, expected_gross) >>
       ELSE <<>>

\* variant: a zero gross_total is not checked
_check_gross_calculation_SkipZero(invoice) ==
    LET expected_gross == invoice.net_total + invoice.tax_amount
        tolerance == invoice.gross_total * GrossTolerance
        diff == Abs(expected_gross - invoice.gross_total)
    IN IF invoice.gross_total # 0 /\ diff * TolScale > tolerance
       THEN << GrossMismatch(invoice, expected_gross) >>
       ELSE <<>>

_check_gross_calculation(invoice) ==
    LET expected_gross == invoice.net_total + invoice.tax_amount
        tolerance == invoice.gross_total * GrossTolerance
        diff == Abs(expected_gross - invoice.gross_total)
    IN IF diff * TolScale > tolerance
       THEN << GrossMismatch(invoice, expected_gross) >>
       ELSE <<>>

\* variant: a due_date equal to invoice_date is reported too
_check_due_date_Inclusive(invoice) ==
    IF invoice.due_date # NoneDate /\ invoice.invoice_date # NoneDate
       /\ invoice.due_date <= invoice.invoice_date
    THEN << ValidationError("due_date_before_invoice_date",
               "due_date (" \o StrDate(invoice.due_date) \o ") is before invoice_date ("
                 \o StrDate(invoice.invoice_date) \o ")",
               "error") >>
    ELSE <<>>

_check_due_date(invoice) ==
    IF invoice.due_date # NoneDate /\ invoice.invoice_date # NoneDate
       /\ invoice.due_date < invoice.invoice_date
    THEN << ValidationError("due_date_before_invoice_date",
               "due_date (" \o StrDate(invoice.due_date) \o ") is before invoice_date ("
                 \o StrDate(invoice.invoice_date) \o ")",
               "error") >>
    ELSE <<>>

DuplicateKey(invoice) ==
    << invoice.invoice_number, invoice.seller_name, StrDate(invoice.invoice_date) >>

DuplicateError(invoice) ==
    ValidationError("duplicate_invoice",
        "Duplicate invoice detected: " \o invoice.invoice_number
          \o " from " \o invoice.seller_name
          \o " on " \o StrDate(invoice.invoice_date),
        "error")

\* variant: the key leaves the date out
_check_duplicates_NumberSellerKey(seen, invoice) ==
    LET key == << invoice.invoice_number, invoice.seller_name, "" >>
    IN IF key \in seen
       THEN [errors |-> << DuplicateError(invoice) >>, seen |-> seen]
       ELSE [errors |-> <<>>, seen |-> seen \cup {key}]

\* variant: a new key is not recorded
_check_duplicates_NoInsert(seen, invoice) ==
    LET key == DuplicateKey(invoice)
    IN IF key \in seen
       THEN [errors |-> << DuplicateError(invoice) >>, seen |-> seen]
       ELSE [errors |-> <<>>, seen |-> seen]

\* returns the errors and the engine's seen_invoices after the call
_check_duplicates(seen, invoice) ==
    LET key == DuplicateKey(invoice)
    IN IF key \in seen
       THEN [errors |-> << DuplicateError(invoice) >>, seen |-> seen]
       ELSE [errors |-> <<>>, seen |-> seen \cup {key}]

AmountFields == << "net_total", "tax_amount", "gross_total" >>

RECURSIVE NegativeAmountsFrom(_, _)
NegativeAmountsFrom(invoice, i) ==
    IF i > Len(AmountFields) THEN <<>>
    ELSE LET name == AmountFields[i]
             value == invoice[name]
             here ==
                 IF value < 0
                 THEN << ValidationError("negative_amount",
                            name \o " cannot be negative (value: " \o FmtFloat(value) \o ")",
                            "error") >>
                 ELSE <<>>
         IN here \o NegativeAmountsFrom(invoice, i + 1)

\* variant: unit_price is checked before quantity
RECURSIVE NegativeItemsFrom_PriceFirst(_, _)
NegativeItemsFrom_PriceFirst(items, idx) ==
    IF idx > Len(items) THEN <<>>
    ELSE LET item == items[idx]
             q == IF item.quantity < 0
                  THEN << ValidationError("negative_quantity",
                             "Line item " \o ToString(idx) \o " has negative quantity: "
                               \o FmtFloat(item.quantity),
                             "error") >>
                  ELSE <<>>
             p == IF item.unit_price < 0
                  THEN << ValidationError("negative_unit_price",
                             "Line item " \o ToString(idx) \o " has negative unit_price: "
                               \o FmtFloat(item.unit_price),
                             "error") >>
                  ELSE <<>>
         IN p \o q \o NegativeItemsFrom_PriceFirst(items, idx + 1)

RECURSIVE NegativeItemsFrom(_, _)
NegativeItemsFrom(items, idx) ==
    IF idx > Len(items) THEN <<>>
    ELSE LET item == items[idx]
             q == IF item.quantity < 0
                  THEN << ValidationError("negative_quantity",
                             "Line item " \o ToString(idx) \o " has negative quantity: "
                               \o FmtFloat(item.quantity),
                             "error") >>
                  ELSE <<>>
             p == IF item.unit_price < 0
                  THEN << ValidationError("negative_unit_price",
                             "Line item " \o ToString(idx) \o " has negative unit_price: "
                               \o FmtFloat(item.unit_price),
                             "error") >>
                  ELSE <<>>
         IN q \o p \o NegativeItemsFrom(items, idx + 1)

_check_non_negative(invoice) ==
    NegativeAmountsFrom(invoice, 1) \o NegativeItemsFrom(invoice.line_items, 1)

\* variant: an invoice dated ahead counts as old by its distance from today
_check_warnings_AnyDirection(invoice, today) ==
    LET w1 == IF invoice.line_items = <<>>
              THEN << ValidationError("no_line_items",
                         "Invoice has no line items", "warning") >>
              ELSE <<>>
        w2 == IF invoice.seller_tax_id = NoneStr \/ invoice.seller_tax_id = ""
              THEN << ValidationError("missing_seller_tax_id",
                         "Seller tax ID is missing", "warning") >>
              ELSE <<>>
        w3 == IF invoice.due_date = NoneDate
              THEN << ValidationError("missing_due_date",
                         "Due date is missing", "warning") >>
              ELSE <<>>
        age_days == Abs(today - invoice.invoice_date)
        w4 == IF invoice.invoice_date # NoneDate /\ age_days > OldInvoiceDays
              THEN << ValidationError("old_invoice",
                         "Invoice is " \o ToString(age_days) \o " days old (over 1 year)",
                         "warning") >>
              ELSE <<>>
    IN w1 \o w2 \o w3 \o w4

_check_warnings(invoice, today) ==
    LET w1 == IF invoice.line_items = <<>>
              THEN << ValidationError("no_line_items",
                         "Invoice has no line items", "warning") >>
              ELSE <<>>
        w2 == IF invoice.seller_tax_id = NoneStr \/ invoice.seller_tax_id = ""
              THEN << ValidationError("missing_seller_tax_id",
                         "Seller tax ID is missing", "warning") >>
              ELSE <<>>
        w3 == IF invoice.due_date = NoneDate
              THEN << ValidationError("missing_due_date",
                         "Due date is missing", "warning") >>
              ELSE <<>>
        age_days == today - invoice.invoice_date
        w4 == IF invoice.invoice_date # NoneDate /\ age_days > OldInvoiceDays
              THEN << ValidationError("old_invoice",
                         "Invoice is " \o ToString(age_days) \o " days old (over 1 year)",
                         "warning") >>
              ELSE <<>>
    IN w1 \o w2 \o w3 \o w4

(***************************************************************************)
(* Single invoice validation.                                              *)
(***************************************************************************)
InvoiceId(invoice) ==
    IF invoice.invoice_number = NoneStr \/ invoice.invoice_number = ""
    THEN "UNKNOWN" ELSE invoice.invoice_number

\* variant: a warning makes the invoice invalid
validate_invoice_WarningsInvalidate(seen, invoice, today) ==
    LET dup == _check_duplicates(seen, invoice)
        errors ==
            _check_required_fields(invoice)
              \o _check_dates(invoice, today)
              \o _check_currency(invoice)
              \o _check_line_items_sum(invoice)
              \o _check_gross_calculation(invoice)
              \o _check_due_date(invoice)
              \o dup.errors
              \o _check_non_negative(invoice)
        warnings == _check_warnings(invoice, today)
    IN [result |-> [invoice_id |-> InvoiceId(invoice),
                    is_valid |-> (Len(errors) = 0 /\ Len(warnings) = 0),
                    errors |-> errors,
                    warnings |-> warnings],
        seen |-> dup.seen]

\* variant: the business and anomaly checks run only on a complete record
validate_invoice_StopAfterCompleteness(seen, invoice, today) ==
    LET dup == _check_duplicates(seen, invoice)
        completeness ==
            _check_required_fields(invoice)
              \o _check_dates(invoice, today)
              \o _check_currency(invoice)
        errors ==
            IF completeness # <<>> THEN completeness
            ELSE _check_line_items_sum(invoice)
                   \o _check_gross_calculation(invoice)
                   \o _check_due_date(invoice)
                   \o dup.errors
                   \o _check_non_negative(invoice)
        warnings == _check_warnings(invoice, today)
    IN [result |-> [invoice_id |-> InvoiceId(invoice),
                    is_valid |-> (Len(errors) = 0),
                    errors |-> errors,
                    warnings |-> warnings],
        seen |-> dup.seen]

\* returns the ValidationResult and the engine's seen_invoices after the call
validate_invoice(seen, invoice, today) ==
    LET dup == _check_duplicates(seen, invoice)
        errors ==
            _check_required_fields(invoice)
              \o _check_dates(invoice, today)
              \o _check_currency(invoice)
              \o _check_line_items_sum(invoice)
              \o _check_gross_calculation(invoice)
              \o _check_due_date(invoice)
              \o dup.errors
              \o _check_non_negative(invoice)
        warnings == _check_warnings(invoice, today)
    IN [result |-> [invoice_id |-> InvoiceId(invoice),
                    is_valid |-> (Len(errors) = 0),
                    errors |-> errors,
                    warnings |-> warnings],
        seen |-> dup.seen]

(***************************************************************************)
(* Batch validation.                                                       *)
(***************************************************************************)
EmptyCounts == [rule \in {} |-> 0]

\* variant: error_counts[err.rule] = 1
RECURSIVE CountErrors_Overwrite(_, _)
CountErrors_Overwrite(error_counts, errors) ==
    IF errors = <<>> THEN error_counts
    ELSE LET rule == errors[1].rule
             bumped ==
                 IF rule \in DOMAIN error_counts
                 THEN [error_counts EXCEPT ![rule] = 1]
                 ELSE error_counts @@ (rule :> 1)
         IN CountErrors_Overwrite(bumped, Tail(errors))

\* for err in result.errors: error_counts[err.rule] += 1   (a defaultdict(int))
RECURSIVE CountErrors(_, _)
CountErrors(error_counts, errors) ==
    IF errors = <<>> THEN error_counts
    ELSE LET rule == errors[1].rule
             bumped ==
                 IF rule \in DOMAIN error_counts
                 THEN [error_counts EXCEPT ![rule] = @ + 1]
                 ELSE error_counts @@ (rule :> 1)
         IN CountErrors(bumped, Tail(errors))

Accumulate(acc, one) ==
    [seen |-> one.seen,
     results |-> Append(acc.results, one.result),
     error_counts |-> CountErrors(acc.error_counts, one.result.errors)]

\* variant: the loop ends at the first invalid record
RECURSIVE BatchLoop_StopAtInvalid(_, _, _, _)
BatchLoop_StopAtInvalid(acc, invoices, i, today) ==
    IF i > Len(invoices) THEN acc
    ELSE LET one == validate_invoice(acc.seen, invoices[i], today)
         IN IF one.result.is_valid
            THEN BatchLoop_StopAtInvalid(Accumulate(acc, one), invoices, i + 1, today)
            ELSE Accumulate(acc, one)

\* the for loop of validate_batch from record i on
RECURSIVE BatchLoop(_, _, _, _)
BatchLoop(acc, invoices, i, today) ==
    IF i > Len(invoices) THEN acc
    ELSE LET one == validate_invoice(acc.seen, invoices[i], today)
         IN BatchLoop(Accumulate(acc, one), invoices, i + 1, today)

RECURSIVE ValidCount(_)
ValidCount(results) ==
    IF results = <<>> THEN 0
    ELSE (IF results[1].is_valid THEN 1 ELSE 0) + ValidCount(Tail(results))

Summary(invoices, results, error_counts, c) ==
    [total_invoices |-> Len(invoices),
     valid_invoices |-> ValidCount(results),
     invalid_invoices |-> Len(invoices) - ValidCount(results),
     error_counts |-> error_counts,
     validation_timestamp |-> utcnow(c)]

\* variant: seen_invoices is not cleared
validate_batch_NoClear(seen, invoices, c) ==
    LET done == BatchLoop([seen |-> seen, results |-> <<>>,
                           error_counts |-> EmptyCounts],
                          invoices, 1, date_today(c))
    IN [results |-> done.results,
        summary |-> Summary(invoices, done.results, done.error_counts, c),
        seen |-> done.seen]

\* returns {"results", "summary"} and the engine's seen_invoices after the call
validate_batch(seen, invoices, c) ==
    LET cleared == {}
        done == BatchLoop([seen |-> cleared, results |-> <<>>,
                           error_counts |-> EmptyCounts],
                          invoices, 1, date_today(c))
    IN [results |-> done.results,
        summary |-> Summary(invoices, done.results, done.error_counts, c),
        seen |-> done.seen]

(***************************************************************************)
(* Invoices the callers hand to the engine.  Every one is an Invoice the   *)
(* record model constructs: required strings present (possibly blank), a   *)
(* date for invoice_date, a Currency member, totals >= 0.                  *)
(***************************************************************************)
LineItem(quantity, unit_price, line_total) ==
    [description |-> "Consulting", quantity |-> quantity,
     unit_price |-> unit_price, line_total |-> line_total]

BaseInvoice ==
    [invoice_number |-> "INV-001",
     seller_name |-> "Acme GmbH",
     seller_tax_id |-> "DE123456789",
     buyer_name |-> "Example Corp AG",
     invoice_date |-> Day0 - 10,
     due_date |-> Day0 + 20,
     currency |-> "EUR",
     net_total |-> 10000,
     tax_amount |-> 1900,
     gross_total |-> 11900,
     line_items |-> << LineItem(10, 1000, 10000) >>]

\* valid, with warnings
InvoiceA ==
    [BaseInvoice EXCEPT !.seller_tax_id = NoneStr, !.due_date = NoneDate]

\* same identity key as InvoiceA, everything else different and wrong
InvoiceB ==
    [BaseInvoice EXCEPT !.buyer_name = "   ",
                        !.due_date = Day0 - 11,
                        !.currency = "USD",
                        !.gross_total = 12000,
                        !.line_items = << LineItem(-1, 1000, 5000),
                                          LineItem(-2, -5, 5101) >>]

\* differs from InvoiceA in the date and the line items; out of range from Day0 on
InvoiceC ==
    [BaseInvoice EXCEPT !.invoice_date = Day0 - DateRangeDays - 1,
                        !.due_date = NoneDate,
                        !.seller_tax_id = "",
                        !.line_items = <<>>]

\* exactly DateRangeDays days old on Day0, one day more the day after
InvoiceEdge ==
    [BaseInvoice EXCEPT !.invoice_date = Day0 - DateRangeDays]

BatchInvoices == {InvoiceA, InvoiceB, InvoiceC}

ClockInvoices == {BaseInvoice, InvoiceEdge}

\* invoices around the two percentage tolerances
LineSums ==
    { << >>, << -1 >>, << 0 >>, << 1 >>, << 99 >>, << 100 >>, << 101 >>,
      << 102 >>, << 9899 >>, << 9900 >>, << 10100 >>, << 10101 >>,
      << 5000, 5100 >>, << 5000, 5101 >>, << 1, -1 >>, << 100, -100, 1 >> }

ItemsOf(totals) == [i \in DOMAIN totals |-> LineItem(1, totals[i], totals[i])]

LineCases ==
    { [BaseInvoice EXCEPT !.net_total = n, !.tax_amount = 0, !.gross_total = n,
                          !.line_items = ItemsOf(t)] :
        n \in {0, 100, 10000}, t \in LineSums }

GrossCasesOf(n) ==
    { [BaseInvoice EXCEPT !.net_total = n, !.tax_amount = t, !.gross_total = g,
                          !.line_items = ItemsOf(l)] :
        t \in {0, 19, 98, 99, 100, 101, 102},
        g \in {0, 119, 120, 200}, l \in { << >>, << n >> } }

GrossCases == GrossCasesOf(0) \cup GrossCasesOf(100)

TolInvoices == LineCases \cup GrossCases

SeqsUpTo(S, n) == UNION {[1..k -> S] : k \in 0..n}

(***************************************************************************)
(* The engine and its callers.                                             *)
(*   last  the last call: operation, argument, seen_invoices and clock at  *)
(*         its start                                                       *)
(*   ret   what the last call returned                                     *)
(*   prev  when the last call was a validate_batch on the same list as the *)
(*         validate_batch just before it: that earlier run's clock and     *)
(*         return value                                                    *)
(* Concurrent callers (threads of control inside validate_batch):          *)
(*   discipline   how they share engines: each its own instance, one       *)
(*                instance under a critical section, or one instance       *)
(*                unserialised; "none" while no thread runs                *)
(*   engine_seen  seen_invoices of each engine instance they use           *)
(*   threads      each thread's position in validate_batch and its locals  *)
(*   lock         the thread inside the critical section, 0 when free      *)
(* The HTTP service:                                                       *)
(*   inflight     for each client, the request the service has received    *)
(*                from it and not yet handled                              *)
(***************************************************************************)
Clients == {1, 2}

NoRequest == [kind |-> "none", body |-> << >>]

Threads == {1, 2}

NoCall == [op |-> "none", invoices |-> <<>>, seen_before |-> {}, clock |-> 0]

NoPrev == [rerun |-> FALSE, clock |-> 0, ret |-> <<>>]

\* a fresh engine (InvoiceValidator.__init__)
Init ==
    /\ seen_invoices = {}
    /\ clock = 0
    /\ last = NoCall
    /\ ret = <<>>
    /\ prev = NoPrev
    /\ discipline = "none"
    /\ engine_seen = [e \in Threads |-> {}]
    /\ threads = [t \in Threads |->
          [pc |-> "idle", invoices |-> <<>>, i |-> 0, results |-> <<>>,
           error_counts |-> EmptyCounts, ret |-> <<>>]]
    /\ lock = 0
    /\ inflight = [c \in Clients |-> NoRequest]

ValidateBatch(Dom, MaxLen) ==
    \E invoices \in SeqsUpTo(Dom, MaxLen) :
        LET out == validate_batch(seen_invoices, invoices, clock)
        IN /\ seen_invoices' = out.seen
           /\ last' = [op |-> "validate_batch", invoices |-> invoices,
                       seen_before |-> seen_invoices, clock |-> clock]
           /\ ret' = [results |-> out.results, summary |-> out.summary]
           /\ prev' = IF last.op = "validate_batch" /\ last.invoices = invoices
                      THEN [rerun |-> TRUE, clock |-> last.clock, ret |-> ret]
                      ELSE NoPrev
           /\ UNCHANGED clock
           /\ UNCHANGED <<concvars, inflight>>

ValidateInvoice(Dom) ==
    \E invoice \in Dom :
        LET out == validate_invoice(seen_invoices, invoice, date_today(clock))
        IN /\ seen_invoices' = out.seen
           /\ last' = [op |-> "validate_invoice", invoices |-> << invoice >>,
                       seen_before |-> seen_invoices, clock |-> clock]
           /\ ret' = out.result
           /\ prev' = NoPrev
           /\ UNCHANGED clock
           /\ UNCHANGED <<concvars, inflight>>

Tick ==
    /\ clock < MaxClock
    /\ clock' = clock + 1
    /\ UNCHANGED <<seen_invoices, last, ret, prev>>
    /\ UNCHANGED <<concvars, inflight>>

\* callers of one engine, within one clock reading
BatchCall == ValidateBatch(BatchInvoices, MaxBatch)

InvoiceCall == ValidateInvoice(BatchInvoices)

Next == BatchCall \/ InvoiceCall

Spec == Init /\ [][Next]_vars

\* batches on one engine while time passes
ClockBatchCall == ValidateBatch(ClockInvoices, MaxRerun)

NextClock == ClockBatchCall \/ Tick

SpecClock == Init /\ [][NextClock]_vars

\* single invoices around the tolerances
TolInvoiceCall == ValidateInvoice(TolInvoices)

NextTol == TolInvoiceCall

SpecTol == Init /\ [][NextTol]_vars

(***************************************************************************)
(* validate_batch run by concurrent threads of control, one record per     *)
(* step.  A thread takes its steps in program order; between two steps of  *)
(* one thread the other may take any number of its own.                    *)
(***************************************************************************)
MaxConc == 2

Disciplines == {"own_engine", "critical_section", "unserialised"}

\* the engine instance thread t calls validate_batch on
EngineOf(t) == IF discipline = "own_engine" THEN t ELSE 1

\* the callers settle how they share engines before any of them runs
Arrange ==
    /\ discipline = "none"
    /\ discipline' \in Disciplines
    /\ UNCHANGED <<engine_seen, threads, lock>>
    /\ UNCHANGED <<seen_invoices, clock, last, ret, prev, inflight>>

\* variant: the state of the previous batch is kept
BatchReset_Keep(seen) == seen

\* self.seen_invoices.clear()
BatchReset(seen) == {}

\* entry of validate_batch up to the reset; under the critical-section
\* discipline the caller enters the section first
BatchBegin(t) ==
    /\ discipline \in Disciplines
    /\ threads[t].pc = "idle"
    /\ discipline = "critical_section" => lock = 0
    /\ lock' = IF discipline = "critical_section" THEN t ELSE lock
    /\ \E invoices \in SeqsUpTo({InvoiceA, InvoiceC}, MaxConc) :
           threads' = [threads EXCEPT ![t] =
                          [pc |-> "loop", invoices |-> invoices, i |-> 1,
                           results |-> <<>>, error_counts |-> EmptyCounts,
                           ret |-> <<>>]]
    /\ engine_seen' = [engine_seen EXCEPT ![EngineOf(t)] = BatchReset(@)]
    /\ UNCHANGED discipline
    /\ UNCHANGED <<seen_invoices, clock, last, ret, prev, inflight>>

\* one iteration of the for loop
BatchRecord(t) ==
    /\ threads[t].pc = "loop"
    /\ threads[t].i <= Len(threads[t].invoices)
    /\ LET th == threads[t]
           one == validate_invoice(engine_seen[EngineOf(t)],
                                   th.invoices[th.i], date_today(clock))
           acc == Accumulate([seen |-> engine_seen[EngineOf(t)],
                              results |-> th.results,
                              error_counts |-> th.error_counts], one)
       IN /\ engine_seen' = [engine_seen EXCEPT ![EngineOf(t)] = acc.seen]
          /\ threads' = [threads EXCEPT ![t] =
                            [th EXCEPT !.i = @ + 1,
                                       !.results = acc.results,
                                       !.error_counts = acc.error_counts]]
    /\ UNCHANGED <<discipline, lock>>
    /\ UNCHANGED <<seen_invoices, clock, last, ret, prev, inflight>>

\* the summary and the return; the caller then leaves its critical section
BatchReturn(t) ==
    /\ threads[t].pc = "loop"
    /\ threads[t].i > Len(threads[t].invoices)
    /\ LET th == threads[t]
       IN threads' = [threads EXCEPT ![t] =
                         [th EXCEPT !.pc = "done",
                                    !.ret = [results |-> th.results,
                                             summary |-> Summary(th.invoices,
                                                 th.results, th.error_counts,
                                                 clock)]]]
    /\ lock' = IF lock = t THEN 0 ELSE lock
    /\ UNCHANGED <<discipline, engine_seen>>
    /\ UNCHANGED <<seen_invoices, clock, last, ret, prev, inflight>>

NextConc ==
    \/ Arrange
    \/ \E t \in Threads : BatchBegin(t)
    \/ \E t \in Threads : BatchRecord(t)
    \/ \E t \in Threads : BatchReturn(t)

SpecConc == Init /\ [][NextConc]_vars

(***************************************************************************)
(* The record model: Invoice and LineItem built from raw field values.     *)
(* A raw record is a function from the keys it has to their values.  A raw *)
(* date value is a date object, the text of a date written in some format, *)
(* or None; a raw string or number is the value or None.                   *)
(***************************************************************************)
DateObject(d) == [format |-> "date", date |-> d]

DateText(format, d) == [format |-> format, date |-> d]

NoneRawDate == [format |-> "None", date |-> NoneDate]

\* pydantic's date field: a date object or an ISO 8601 calendar date
IsoFormats == {"date", "%Y-%m-%d"}

ConstructionError == [ok |-> FALSE, error |-> "ValidationError"]

Constructed(invoice) == [ok |-> TRUE, invoice |-> invoice]

RawStrRequired == {"invoice_number", "seller_name", "buyer_name"}

RawNumRequired == {"net_total", "tax_amount", "gross_total"}

\* a required field is given when the key is there and its value is not None
GivenStr(raw, f) == f \in DOMAIN raw /\ raw[f] # NoneStr

GivenNum(raw, f) == f \in DOMAIN raw /\ raw[f] # NoneNum

GivenDate(raw, f) == f \in DOMAIN raw /\ raw[f] # NoneRawDate

\* LineItem: four required fields, no validator
LineItemConstructs(item) ==
    /\ GivenStr(item, "description")
    /\ \A f \in {"quantity", "unit_price", "line_total"} : GivenNum(item, f)

ConstructLineItem(item) ==
    [description |-> item.description, quantity |-> item.quantity,
     unit_price |-> item.unit_price, line_total |-> item.line_total]

RawItems(raw) == IF "line_items" \in DOMAIN raw THEN raw.line_items ELSE <<>>

\* variant: the totals are not validated
Invoice_NoValidator(raw) ==
    IF /\ \A f \in RawStrRequired : GivenStr(raw, f)
       /\ GivenDate(raw, "invoice_date")
       /\ raw.invoice_date.format \in IsoFormats
       /\ GivenDate(raw, "due_date") => raw.due_date.format \in IsoFormats
       /\ "currency" \in DOMAIN raw => raw.currency \in Currency
       /\ \A f \in RawNumRequired : GivenNum(raw, f)
       /\ \A k \in 1..Len(RawItems(raw)) : LineItemConstructs(RawItems(raw)[k])
    THEN Constructed(
           [invoice_number |-> raw.invoice_number,
            seller_name |-> raw.seller_name,
            seller_tax_id |-> IF "seller_tax_id" \in DOMAIN raw
                              THEN raw.seller_tax_id ELSE NoneStr,
            buyer_name |-> raw.buyer_name,
            invoice_date |-> raw.invoice_date.date,
            due_date |-> IF GivenDate(raw, "due_date")
                         THEN raw.due_date.date ELSE NoneDate,
            currency |-> IF "currency" \in DOMAIN raw
                         THEN raw.currency ELSE "EUR",
            net_total |-> raw.net_total,
            tax_amount |-> raw.tax_amount,
            gross_total |-> raw.gross_total,
            line_items |-> [k \in 1..Len(RawItems(raw)) |->
                               ConstructLineItem(RawItems(raw)[k])]])
    ELSE ConstructionError

\* variant: a record without a currency gets None, not EUR
Invoice_NoCurrencyDefault(raw) ==
    IF /\ \A f \in RawStrRequired : GivenStr(raw, f)
       /\ GivenDate(raw, "invoice_date")
       /\ raw.invoice_date.format \in IsoFormats
       /\ GivenDate(raw, "due_date") => raw.due_date.format \in IsoFormats
       /\ "currency" \in DOMAIN raw => raw.currency \in Currency
       /\ \A f \in RawNumRequired : GivenNum(raw, f) /\ ~ (raw[f] < 0)
       /\ \A k \in 1..Len(RawItems(raw)) : LineItemConstructs(RawItems(raw)[k])
    THEN Constructed(
           [invoice_number |-> raw.invoice_number,
            seller_name |-> raw.seller_name,
            seller_tax_id |-> IF "seller_tax_id" \in DOMAIN raw
                              THEN raw.seller_tax_id ELSE NoneStr,
            buyer_name |-> raw.buyer_name,
            invoice_date |-> raw.invoice_date.date,
            due_date |-> IF GivenDate(raw, "due_date")
                         THEN raw.due_date.date ELSE NoneDate,
            currency |-> IF "currency" \in DOMAIN raw
                         THEN raw.currency ELSE NoneStr,
            net_total |-> raw.net_total,
            tax_amount |-> raw.tax_amount,
            gross_total |-> raw.gross_total,
            line_items |-> [k \in 1..Len(RawItems(raw)) |->
                               ConstructLineItem(RawItems(raw)[k])]])
    ELSE ConstructionError

\* Invoice from keyword arguments: the declared fields, then
\* non_negative_amounts on the totals
Invoice(raw) ==
    IF /\ \A f \in RawStrRequired : GivenStr(raw, f)
       /\ GivenDate(raw, "invoice_date")
       /\ raw.invoice_date.format \in IsoFormats
       /\ GivenDate(raw, "due_date") => raw.due_date.format \in IsoFormats
       /\ "currency" \in DOMAIN raw => raw.currency \in Currency
       /\ \A f \in RawNumRequired : GivenNum(raw, f) /\ ~ (raw[f] < 0)
       /\ \A k \in 1..Len(RawItems(raw)) : LineItemConstructs(RawItems(raw)[k])
    THEN Constructed(
           [invoice_number |-> raw.invoice_number,
            seller_name |-> raw.seller_name,
            seller_tax_id |-> IF "seller_tax_id" \in DOMAIN raw
                              THEN raw.seller_tax_id ELSE NoneStr,
            buyer_name |-> raw.buyer_name,
            invoice_date |-> raw.invoice_date.date,
            due_date |-> IF GivenDate(raw, "due_date")
                         THEN raw.due_date.date ELSE NoneDate,
            currency |-> IF "currency" \in DOMAIN raw
                         THEN raw.currency ELSE "EUR",
            net_total |-> raw.net_total,
            tax_amount |-> raw.tax_amount,
            gross_total |-> raw.gross_total,
            line_items |-> [k \in 1..Len(RawItems(raw)) |->
                               ConstructLineItem(RawItems(raw)[k])]])
    ELSE ConstructionError

(***************************************************************************)
(* Raw records callers construct invoices from (the JSON interchange       *)
(* shape: dates as text, amounts as numbers).                              *)
(***************************************************************************)
Without(raw, f) == [k \in DOMAIN raw \ {f} |-> raw[k]]

With(raw, f, v) == [k \in DOMAIN raw \cup {f} |-> IF k = f THEN v ELSE raw[k]]

RawItem(quantity, unit_price, line_total) ==
    [description |-> "Consulting", quantity |-> quantity,
     unit_price |-> unit_price, line_total |-> line_total]

BaseRaw ==
    [invoice_number |-> "INV-001",
     seller_name |-> "Acme GmbH",
     seller_tax_id |-> "DE123456789",
     buyer_name |-> "Example Corp AG",
     invoice_date |-> DateText("%Y-%m-%d", Day0 - 10),
     due_date |-> DateText("%Y-%m-%d", Day0 + 20),
     currency |-> "EUR",
     net_total |-> 10000,
     tax_amount |-> 1900,
     gross_total |-> 11900,
     line_items |-> << RawItem(10, 1000, 10000) >>]

ZeroRaw ==
    With(With(With(With(BaseRaw, "net_total", 0), "tax_amount", 0),
              "gross_total", 0), "line_items", <<>>)

NegativeItemsRaw ==
    With(With(BaseRaw, "buyer_name", "   "), "line_items",
         << RawItem(-1, 1000, 5000), RawItem(-2, -5, -3) >>)

NegativeTotalRaw == With(BaseRaw, "tax_amount", -1900)

RawRecords ==
    {BaseRaw, ZeroRaw, NegativeItemsRaw, NegativeTotalRaw}
    \cup {Without(BaseRaw, f) : f \in DOMAIN BaseRaw}
    \cup {With(BaseRaw, f, NoneStr) :
             f \in RawStrRequired \cup {"seller_tax_id", "currency"}}
    \cup {With(BaseRaw, f, NoneRawDate) : f \in {"invoice_date", "due_date"}}
    \cup {With(BaseRaw, f, v) : f \in RawNumRequired, v \in {NoneNum, -1, 0}}
    \cup {With(BaseRaw, f, v) : f \in RawStrRequired, v \in {"", "   "}}
    \cup {With(BaseRaw, "currency", v) : v \in {"USD", "GBP", "INR", "CHF", "eur", ""}}
    \cup {With(BaseRaw, f, v) :
             f \in {"invoice_date", "due_date"},
             v \in {DateObject(Day0 - 10), DateText("%Y-%m-%d", Day0 - 11),
                    DateText("%d.%m.%Y", Day0 - 10), DateText("%m/%d/%Y", Day0 - 10),
                    DateText("unparseable", NoneDate)}}
    \cup {With(BaseRaw, "gross_total", 12000), With(BaseRaw, "net_total", 1)}
    \cup {With(BaseRaw, "line_items", l) :
             l \in {<< RawItem(-1, 1000, 10000) >>, << RawItem(10, -1000, 10000) >>,
                    << RawItem(10, 1000, -10000) >>,
                    << RawItem(10, 1000, 10000), RawItem(0, 0, 0) >>,
                    << Without(RawItem(10, 1000, 10000), "description") >>,
                    << RawItem(NoneNum, 1000, 10000) >>}}
    \cup {With(NegativeTotalRaw, "seller_name", ""),
          With(ZeroRaw, "due_date", DateText("%Y-%m-%d", Day0 - 11)),
          With(NegativeItemsRaw, "invoice_date", DateText("unparseable", NoneDate))}

\* one construction
Construct(Dom) ==
    \E raw \in Dom :
        /\ last' = [op |-> "Invoice", invoices |-> << raw >>,
                    seen_before |-> seen_invoices, clock |-> clock]
        /\ ret' = Invoice(raw)
        /\ prev' = NoPrev
        /\ UNCHANGED <<seen_invoices, clock>>
        /\ UNCHANGED <<concvars, inflight>>

UnprocessableEntity == [status |-> 422]

\* POST /validate-json: the body is parsed into List[Invoice] before the
\* handler runs; the handler validates the batch on the service's engine.
\* The handler's frame leaves out inflight, which its caller settles.
ValidateJsonBody(body) ==
    LET parsed == [k \in 1..Len(body) |-> Invoice(body[k])]
        invoices == [k \in 1..Len(body) |-> parsed[k].invoice]
        out == validate_batch(seen_invoices, invoices, clock)
    IN /\ last' = [op |-> "validate_json", invoices |-> body,
                   seen_before |-> seen_invoices, clock |-> clock]
       /\ prev' = NoPrev
       /\ IF \A k \in 1..Len(body) : parsed[k].ok
          THEN /\ seen_invoices' = out.seen
               /\ ret' = [status |-> 200, invoices |-> invoices,
                          results |-> out.results, summary |-> out.summary]
          ELSE /\ seen_invoices' = seen_invoices
               /\ ret' = UnprocessableEntity
       /\ UNCHANGED clock
       /\ UNCHANGED concvars

\* a request received and handled at once
ValidateJson(Dom, MaxLen) ==
    \E body \in SeqsUpTo(Dom, MaxLen) :
        ValidateJsonBody(body) /\ UNCHANGED inflight

ConstructCall == Construct(RawRecords)

ValidateJsonCall ==
    ValidateJson({BaseRaw, ZeroRaw, NegativeItemsRaw, NegativeTotalRaw}, MaxRerun)

NextRecord == ConstructCall \/ ValidateJsonCall

SpecRecord == Init /\ [][NextRecord]_vars

(***************************************************************************)
(* The extraction collaborator (PDFInvoiceExtractor).                      *)
(* A document is what the text and table scraping finds in it:             *)
(*   fields  for each FIELD_PATTERNS key whose pattern matches, the text   *)
(*           of its second group: a string for a name or number, the       *)
(*           characters of an amount, a date text for a date               *)
(*   rows    the rows below the header of its four-column tables: the      *)
(*           description cell (a string, or None for an empty cell) and    *)
(*           the characters of the three number cells                     *)
(* Amount texts of the model have no non-zero decimals.                    *)
(***************************************************************************)
Digits == {"0", "1", "2", "3", "4", "5", "6", "7", "8", "9"}

DigitValue(c) ==
    CASE c = "0" -> 0 [] c = "1" -> 1 [] c = "2" -> 2 [] c = "3" -> 3
      [] c = "4" -> 4 [] c = "5" -> 5 [] c = "6" -> 6 [] c = "7" -> 7
      [] c = "8" -> 8 [] c = "9" -> 9

\* str.replace(old, new) for a one-character old; new is a string
RECURSIVE Replace(_, _, _)
Replace(s, old, new) ==
    IF s = <<>> THEN <<>>
    ELSE (IF s[1] = old THEN new ELSE << s[1] >>) \o Replace(Tail(s), old, new)

Contains(s, c) == \E k \in 1..Len(s) : s[k] = c

\* str.find(c): the lowest index (from 0), -1 when c does not occur
Find(s, c) ==
    IF Contains(s, c)
    THEN (CHOOSE k \in 1..Len(s) :
             s[k] = c /\ \A j \in 1..(k - 1) : s[j] # c) - 1
    ELSE -1

Unsigned(s) == IF s # <<>> /\ s[1] \in {"-", "+"} THEN Tail(s) ELSE s

\* float(s) succeeds: an optional sign, digits, at most one point, a digit
FloatParses(s) ==
    LET u == Unsigned(s)
    IN /\ \A k \in 1..Len(u) : u[k] \in Digits \cup {"."}
       /\ \E k \in 1..Len(u) : u[k] \in Digits
       /\ Cardinality({k \in 1..Len(u) : u[k] = "."}) <= 1

RECURSIVE DigitsValue(_, _)
DigitsValue(acc, s) ==
    IF s = <<>> \/ s[1] = "." THEN acc
    ELSE DigitsValue(10 * acc + DigitValue(s[1]), Tail(s))

\* float(s) for a text that parses
FloatValue(s) ==
    IF s # <<>> /\ s[1] = "-"
    THEN 0 - DigitsValue(0, Unsigned(s))
    ELSE DigitsValue(0, Unsigned(s))

ParseFormats == {"%d.%m.%Y", "%Y-%m-%d", "%d-%m-%Y", "%m/%d/%Y"}

\* the date when one of the four formats reads the text, else None
_parse_date(text) ==
    IF text.format \in ParseFormats THEN text.date ELSE NoneDate

\* variant: None when float() fails
_parse_number_NoneOnFailure(s) ==
    LET spaceless == Replace(s, " ", <<>>)
        german == IF /\ Contains(spaceless, ",")
                     /\ Contains(spaceless, ".")
                     /\ Find(spaceless, ",") > Find(spaceless, ".")
                  THEN Replace(Replace(spaceless, ".", <<>>), ",", << "." >>)
                  ELSE spaceless
        cleaned == Replace(german, ",", <<>>)
    IN IF FloatParses(cleaned) THEN FloatValue(cleaned) ELSE NoneNum

_parse_number(s) ==
    LET spaceless == Replace(s, " ", <<>>)
        german == IF /\ Contains(spaceless, ",")
                     /\ Contains(spaceless, ".")
                     /\ Find(spaceless, ",") > Find(spaceless, ".")
                  THEN Replace(Replace(spaceless, ".", <<>>), ",", << "." >>)
                  ELSE spaceless
        cleaned == Replace(german, ",", <<>>)
    IN IF FloatParses(cleaned) THEN FloatValue(cleaned) ELSE 0

_clean_value(key, value) ==
    IF key \in {"invoice_date", "due_date"} THEN _parse_date(value)
    ELSE IF key \in {"net_total", "tax_amount", "gross_total"}
         THEN _parse_number(value)
         ELSE value

\* the dict of the fields whose pattern matched
_extract_basic_fields(doc) ==
    [key \in DOMAIN doc.fields |-> _clean_value(key, doc.fields[key])]

\* one table row: a LineItem, or nothing when a cell does not convert
RowConverts(row) ==
    /\ row[1] # NoneStr
    /\ \A k \in 2..4 : FloatParses(Replace(row[k], ",", << "." >>))

RowItem(row) ==
    [description |-> Strip(row[1]),
     quantity |-> FloatValue(Replace(row[2], ",", << "." >>)),
     unit_price |-> FloatValue(Replace(row[3], ",", << "." >>)),
     line_total |-> FloatValue(Replace(row[4], ",", << "." >>))]

RECURSIVE _extract_line_items(_)
_extract_line_items(rows) ==
    IF rows = <<>> THEN <<>>
    ELSE (IF RowConverts(rows[1]) THEN << RowItem(rows[1]) >> ELSE <<>>)
         \o _extract_line_items(Tail(rows))

\* dict.get(key, default)
Get(parsed, key, default) ==
    IF key \in DOMAIN parsed THEN parsed[key] ELSE default

\* parsed.get(key) for a date: the date _parse_date returned, or None
GetDate(parsed, key) ==
    IF key \in DOMAIN parsed /\ parsed[key] # NoneDate
    THEN DateObject(parsed[key])
    ELSE NoneRawDate

\* the keyword arguments extract() passes to Invoice
ExtractedArguments(doc) ==
    LET parsed == _extract_basic_fields(doc)
    IN [invoice_number |-> Get(parsed, "invoice_number", "UNKNOWN"),
        seller_name |-> Strip(Get(parsed, "seller_name", "")),
        seller_tax_id |-> NoneStr,
        buyer_name |-> Strip(Get(parsed, "buyer_name", "")),
        invoice_date |-> GetDate(parsed, "invoice_date"),
        due_date |-> GetDate(parsed, "due_date"),
        currency |-> "EUR",
        net_total |-> Get(parsed, "net_total", 0),
        tax_amount |-> Get(parsed, "tax_amount", 0),
        gross_total |-> Get(parsed, "gross_total", 0),
        line_items |-> _extract_line_items(doc.rows)]

\* PDFInvoiceExtractor.extract: the Invoice, or the construction error raised
extract(doc) == Invoice(ExtractedArguments(doc))

(***************************************************************************)
(* Documents.                                                              *)
(***************************************************************************)
PlainAmount == << "1", "0", "0", "0", "0" >>

GermanAmount == << "1", "0", ".", "0", "0", "0", ",", "0", "0" >>

EnglishAmount == << "1", "0", ",", "0", "0", "0", ".", "0", "0" >>

AmountTexts ==
    {PlainAmount, GermanAmount, EnglishAmount,
     << "1", "0", " ", "0", "0", "0" >>, << "0", ",", "0", "0" >>,
     << "1", ".", "2", ".", "3" >>, << "." >>, << "," >>,
     << ".", ",", "." >>}

DateTexts ==
    {DateText(format, Day0 - 10) : format \in ParseFormats}
    \cup {DateText("%d/%m/%Y", Day0 - 10), DateText("unparseable", NoneDate)}

BaseRow == << "Consulting", << "1", "0" >>, << "1", "0", "0", "0" >>, PlainAmount >>

RowSets ==
    {<< >>,
     << BaseRow >>,
     << BaseRow, << " ", << "0" >>, << "0" >>, << "0" >> >> >>,
     << << "Refund", << "-", "1" >>, << "1", "0", "0", "0", "0" >>,
           << "-", "1", "0", "0", "0", "0" >> >> >>,
     << << "Consulting", << "1", "0", ",", "0" >>, << "1", "0", "0", "0" >>,
           EnglishAmount >>, BaseRow >>,
     << << NoneStr, << "1" >>, << "1" >>, << "1" >> >> >>,
     << << "Total", << >>, << >>, PlainAmount >> >>}

BaseDoc ==
    [fields |-> [invoice_number |-> "INV-001",
                 invoice_date |-> DateText("%d.%m.%Y", Day0 - 10),
                 due_date |-> DateText("%Y-%m-%d", Day0 + 20),
                 net_total |-> GermanAmount,
                 tax_amount |-> << "1", ",", "9", "0", "0", ".", "0", "0" >>,
                 gross_total |-> << "1", "1", "9", "0", "0" >>,
                 seller_name |-> " Acme GmbH ",
                 buyer_name |-> "Example Corp AG"],
     rows |-> << BaseRow >>]

WithoutField(doc, f) == [doc EXCEPT !.fields = Without(@, f)]

WithField(doc, f, text) == [doc EXCEPT !.fields = With(@, f, text)]

\* no total and no table is recovered
TotalsLostDoc ==
    [WithoutField(WithoutField(WithoutField(BaseDoc, "net_total"),
                               "tax_amount"), "gross_total")
        EXCEPT !.rows = << >>]

\* no invoice date is recovered
DateLostDoc == WithoutField(BaseDoc, "invoice_date")

\* nothing is recovered
BlankDoc == [fields |-> [key \in {} |-> ""], rows |-> << >>]

Documents ==
    {BaseDoc, TotalsLostDoc, DateLostDoc, BlankDoc}
    \cup {WithoutField(BaseDoc, f) : f \in DOMAIN BaseDoc.fields}
    \cup {WithField(BaseDoc, f, text) :
             f \in {"invoice_date", "due_date"}, text \in DateTexts}
    \cup {WithField(BaseDoc, f, text) :
             f \in {"net_total", "tax_amount", "gross_total"},
             text \in AmountTexts}
    \cup {[BaseDoc EXCEPT !.rows = rows] : rows \in RowSets}
    \cup {[TotalsLostDoc EXCEPT !.rows = << BaseRow >>],
          WithField(WithField(WithField(BaseDoc, "net_total", << "." >>),
                              "tax_amount", << "," >>),
                    "gross_total", << "1", ".", "2", ".", "3" >>),
          WithField(TotalsLostDoc, "seller_name", "   ")}

\* one extraction
Extract(Dom) ==
    \E doc \in Dom :
        /\ last' = [op |-> "extract", invoices |-> << doc >>,
                    seen_before |-> seen_invoices, clock |-> clock]
        /\ ret' = extract(doc)
        /\ prev' = NoPrev
        /\ UNCHANGED <<seen_invoices, clock>>
        /\ UNCHANGED <<concvars, inflight>>

\* the first file extract() raises on, 0 when it raises on none
FirstFailure(files) ==
    IF \E k \in 1..Len(files) : ~ extract(files[k]).ok
    THEN CHOOSE k \in 1..Len(files) :
             /\ ~ extract(files[k]).ok
             /\ \A j \in 1..(k - 1) : extract(files[j]).ok
    ELSE 0

\* POST /extract-and-validate-pdfs with PDF uploads
ExtractAndValidateFiles(files) ==
    LET invoices == [k \in 1..Len(files) |-> extract(files[k]).invoice]
        out == validate_batch(seen_invoices, invoices, clock)
    IN /\ last' = [op |-> "extract_and_validate_pdfs", invoices |-> files,
                   seen_before |-> seen_invoices, clock |-> clock]
       /\ prev' = NoPrev
       /\ IF files = << >>
          THEN /\ seen_invoices' = seen_invoices
               /\ ret' = [status |-> 400]
          ELSE IF FirstFailure(files) # 0
          THEN /\ seen_invoices' = seen_invoices
               /\ ret' = [status |-> 500]
          ELSE /\ seen_invoices' = out.seen
               /\ ret' = [status |-> 200, extracted |-> invoices,
                          validation_results |-> out.results,
                          summary |-> out.summary]
       /\ UNCHANGED clock
       /\ UNCHANGED concvars

\* a request received and handled at once
ExtractAndValidatePdfs(Dom, MaxLen) ==
    \E files \in SeqsUpTo(Dom, MaxLen) :
        ExtractAndValidateFiles(files) /\ UNCHANGED inflight

ExtractCall == Extract(Documents)

ExtractAndValidateCall ==
    ExtractAndValidatePdfs({BaseDoc, TotalsLostDoc, DateLostDoc}, MaxRerun)

NextExtract == ExtractCall \/ ExtractAndValidateCall

SpecExtract == Init /\ [][NextExtract]_vars

(***************************************************************************)
(* The rule implementations called one at a time, on records that need not *)
(* have come through the record model (a required field may be None, a     *)
(* total negative).                                                        *)
(***************************************************************************)
\* the values a required field can hold besides the one of BaseInvoice
OtherValues(f) ==
    IF f \in {"invoice_number", "seller_name", "buyer_name"}
    THEN {NoneStr, "", "   "}
    ELSE IF f = "currency" THEN {NoneStr, ""}
    ELSE IF f = "invoice_date" THEN {NoneDate}
    ELSE {NoneNum, 0}

RequiredSet == {REQUIRED_FIELDS[i] : i \in 1..Len(REQUIRED_FIELDS)}

\* BaseInvoice with up to two required fields changed
RequiredObjects ==
    {BaseInvoice}
    \cup UNION {{With(BaseInvoice, f, v) : v \in OtherValues(f)} : f \in RequiredSet}
    \cup UNION {UNION {{With(With(BaseInvoice, f, v), g, w) :
                           v \in OtherValues(f), w \in OtherValues(g)} :
                       g \in RequiredSet \ {f}} : f \in RequiredSet}
    \cup {[BaseInvoice EXCEPT !.net_total = 0, !.tax_amount = 0, !.gross_total = 0],
          [BaseInvoice EXCEPT !.invoice_number = NoneStr, !.seller_name = "",
                              !.buyer_name = "   ", !.currency = NoneStr,
                              !.invoice_date = NoneDate, !.net_total = NoneNum,
                              !.tax_amount = NoneNum, !.gross_total = NoneNum]}

ItemLists ==
    {<< >>,
     << LineItem(-1, 5, 5) >>,
     << LineItem(5, -1, 5) >>,
     << LineItem(-1, -1, 1) >>,
     << LineItem(1, 1, -1) >>,
     << LineItem(1, 1, 1), LineItem(-1, -2, 2) >>,
     << LineItem(-3, -1, 3), LineItem(-1, 5, 0), LineItem(0, -5, 0) >>}

NonNegativeObjects ==
    {[BaseInvoice EXCEPT !.net_total = n, !.tax_amount = t, !.gross_total = g,
                         !.line_items = l] :
        n \in {-1, 0, 5}, t \in {-5, 5}, g \in {-1, 0}, l \in ItemLists}

DueDateObjects ==
    {[BaseInvoice EXCEPT !.invoice_date = i, !.due_date = d] :
        i \in {NoneDate, Day0 - 10},
        d \in {NoneDate, Day0 - 400, Day0 - 11, Day0 - 10, Day0 - 9, Day0 + 20}}

DatesObjects ==
    {[BaseInvoice EXCEPT !.invoice_date = i, !.due_date = d] :
        i \in {NoneDate, Day0, Day0 - 1, Day0 + 1}
              \cup {Day0 - DateRangeDays - k : k \in {-1, 0, 1, 2}}
              \cup {Day0 + DateRangeDays + k : k \in {-1, 0, 1, 2}}
              \cup {NotADate},
        d \in {NoneDate, Day0 - 5000, Day0 + 5000, NotADate}}

\* one call of a rule implementation that returned errors
RuleCall(name, invoice, errors) ==
    /\ last' = [op |-> name, invoices |-> << invoice >>,
                seen_before |-> seen_invoices, clock |-> clock]
    /\ ret' = errors
    /\ prev' = NoPrev
    /\ UNCHANGED <<seen_invoices, clock>>
    /\ UNCHANGED <<concvars, inflight>>

RequiredFieldsCall ==
    \E invoice \in RequiredObjects :
        RuleCall("_check_required_fields", invoice, _check_required_fields(invoice))

NonNegativeCall ==
    \E invoice \in NonNegativeObjects :
        RuleCall("_check_non_negative", invoice, _check_non_negative(invoice))

DueDateCall ==
    \E invoice \in DueDateObjects :
        RuleCall("_check_due_date", invoice, _check_due_date(invoice))

DatesCall ==
    \E invoice \in DatesObjects :
        RuleCall("_check_dates", invoice, _check_dates(invoice, date_today(clock)))

ConstructItemsCall ==
    Construct({With(BaseRaw, "line_items", [k \in DOMAIN l |->
                  RawItem(l[k].quantity, l[k].unit_price, l[k].line_total)]) :
                  l \in ItemLists})

NextRules ==
    RequiredFieldsCall \/ NonNegativeCall \/ DueDateCall \/ DatesCall
        \/ ConstructItemsCall \/ Tick

SpecRules == Init /\ [][NextRules]_vars

(***************************************************************************)
(* Invoices around the warning rules.                                      *)
(***************************************************************************)
WarnInvoices ==
    {[BaseInvoice EXCEPT !.line_items = l, !.seller_tax_id = s,
                         !.due_date = d, !.invoice_date = i] :
        l \in {<< >>, BaseInvoice.line_items},
        s \in {NoneStr, "", "DE123456789"},
        d \in {NoneDate, Day0 + 20},
        i \in {Day0 - OldInvoiceDays - 1, Day0 - OldInvoiceDays, Day0 + 400}}

WarnInvoiceCall == ValidateInvoice(WarnInvoices)

\* a valid invoice with all four warnings, and an invalid one with two
WarnBatchCall ==
    ValidateBatch(
        {[BaseInvoice EXCEPT !.line_items = << >>, !.seller_tax_id = NoneStr,
                             !.due_date = NoneDate,
                             !.invoice_date = Day0 - OldInvoiceDays - 1],
         [BaseInvoice EXCEPT !.seller_tax_id = "", !.due_date = NoneDate,
                             !.gross_total = 12000]},
        MaxRerun)

NextWarn == WarnInvoiceCall \/ WarnBatchCall

SpecWarn == Init /\ [][NextWarn]_vars

(***************************************************************************)
(* Requests that carry one record: every raw record and every document of  *)
(* the domains goes through the record model and then the engine.          *)
(***************************************************************************)
SingleRecordRequest ==
    \E raw \in RawRecords : ValidateJsonBody(<< raw >>) /\ UNCHANGED inflight

SinglePdfRequest ==
    \E doc \in Documents : ExtractAndValidateFiles(<< doc >>) /\ UNCHANGED inflight

NextConstructed == SingleRecordRequest \/ SinglePdfRequest

SpecConstructed == Init /\ [][NextConstructed]_vars

(***************************************************************************)
(* The HTTP service with overlapping requests.  One event loop runs the    *)
(* handlers; a handler has no await, so between the receipt of a request   *)
(* and its handler any number of other requests may be received and        *)
(* handled, but a handler, once started, runs to its return.               *)
(***************************************************************************)
Requests ==
    {[kind |-> "json", body |-> body] :
        body \in SeqsUpTo({BaseRaw, NegativeItemsRaw}, MaxRerun)}
    \cup {[kind |-> "pdf", body |-> files] :
             files \in SeqsUpTo({BaseDoc, TotalsLostDoc}, MaxRerun)}

\* the service reads a request of client c off its connection
Receive(c) ==
    /\ inflight[c] = NoRequest
    /\ \E request \in Requests : inflight' = [inflight EXCEPT ![c] = request]
    /\ UNCHANGED <<seen_invoices, clock, last, ret, prev>>
    /\ UNCHANGED concvars

\* the event loop runs the handler of a received request and responds
Handle(c) ==
    /\ inflight[c] # NoRequest
    /\ IF inflight[c].kind = "json"
       THEN ValidateJsonBody(inflight[c].body)
       ELSE ExtractAndValidateFiles(inflight[c].body)
    /\ inflight' = [inflight EXCEPT ![c] = NoRequest]

NextService ==
    \/ \E c \in Clients : Receive(c)
    \/ \E c \in Clients : Handle(c)

SpecService == Init /\ [][NextService]_vars

(***************************************************************************)
(* Properties.                                                             *)
(***************************************************************************)
IsBatch == last.op = "validate_batch"
IsSingle == last.op = "validate_invoice"

\* how many errors of the sequence carry the rule
RuleCount(errors, rule) ==
    Cardinality({i \in DOMAIN errors : errors[i].rule = rule})

RulesOf(errors) == {errors[i].rule : i \in DOMAIN errors}

\* the identity of an invoice: number, seller and date
SameIdentity(a, b) ==
    /\ a.invoice_number = b.invoice_number
    /\ a.seller_name = b.seller_name
    /\ a.invoice_date = b.invoice_date

\* C1: within one validate_batch call the first invoice carrying an identity
\* key gets no duplicate_invoice error and every later invoice carrying the
\* same key gets exactly one, whatever else the invoices hold.
C1_DuplicatesAfterFirst ==
    IsBatch =>
        \A i \in DOMAIN last.invoices :
            RuleCount(ret.results[i].errors, "duplicate_invoice")
              = IF \E j \in 1..(i - 1) : SameIdentity(last.invoices[j], last.invoices[i])
                THEN 1 ELSE 0

C1_Witness ==
    /\ IsBatch
    /\ Len(last.invoices) = 3
    /\ last.seen_before # {}
    /\ last.invoices[1] # last.invoices[2]
    /\ \A i \in 2..3 : SameIdentity(last.invoices[1], last.invoices[i])
    /\ RuleCount(ret.results[1].errors, "duplicate_invoice") = 0
    /\ Len(ret.results[2].errors) > 1
    /\ \A i \in 2..3 : RuleCount(ret.results[i].errors, "duplicate_invoice") = 1

\* the results the last call returned
ReturnedResults ==
    IF IsBatch THEN ret.results ELSE IF IsSingle THEN << ret >> ELSE << >>

\* C2: in every ValidationResult is_valid is true exactly when errors is
\* empty, whatever the warnings are.
C2_ValidIffNoErrors ==
    \A i \in DOMAIN ReturnedResults :
        ReturnedResults[i].is_valid <=> (ReturnedResults[i].errors = << >>)

C2_Witness ==
    /\ IsBatch
    /\ \E i \in DOMAIN ret.results :
          /\ ret.results[i].is_valid
          /\ Len(ret.results[i].warnings) >= 2
    /\ \E i \in DOMAIN ret.results :
          /\ ~ret.results[i].is_valid
          /\ ret.results[i].warnings = << >>

\* C3: whatever state earlier calls left on the engine, validate_batch
\* returns the per-record results the same list gets on a fresh engine.
C3_BatchResetsSeen ==
    IsBatch => ret.results = validate_batch({}, last.invoices, last.clock).results

C3_Witness ==
    /\ IsBatch
    /\ \E i \in DOMAIN last.invoices : DuplicateKey(last.invoices[i]) \in last.seen_before
    /\ \E i \in DOMAIN ret.results : ret.results[i].is_valid

\* C4 as stated: a second validate_batch on the same list returns the same
\* results and the same summary, every field included.
C4_RerunIdentical ==
    (IsBatch /\ prev.rerun) => ret = prev.ret

SummaryButTimestamp(summary) ==
    [total_invoices |-> summary.total_invoices,
     valid_invoices |-> summary.valid_invoices,
     invalid_invoices |-> summary.invalid_invoices,
     error_counts |-> summary.error_counts]

\* C4 amended: a second validate_batch on the same list, run on the same
\* calendar day, returns the same results and the same summary except for
\* validation_timestamp, which is the time of each run.
C4_RerunIdenticalButTimestamp ==
    (IsBatch /\ prev.rerun) =>
        /\ ret.summary.validation_timestamp = utcnow(last.clock)
        /\ prev.ret.summary.validation_timestamp = utcnow(prev.clock)
        /\ date_today(prev.clock) = date_today(last.clock) =>
              /\ ret.results = prev.ret.results
              /\ SummaryButTimestamp(ret.summary) = SummaryButTimestamp(prev.ret.summary)

C4_Witness ==
    /\ IsBatch
    /\ prev.rerun
    /\ Len(last.invoices) = 2
    /\ prev.clock # last.clock
    /\ date_today(prev.clock) = date_today(last.clock)
    /\ ret.summary.invalid_invoices = 1
    /\ ret.results = prev.ret.results

AllRules ==
    { "required_field_missing", "required_field_empty", "invalid_date_format",
      "date_out_of_range", "invalid_currency", "line_items_sum_mismatch",
      "gross_calculation_mismatch", "due_date_before_invoice_date",
      "duplicate_invoice", "negative_amount", "negative_quantity",
      "negative_unit_price" }

\* the positions <<record, error>> of the errors with the rule
Occurrences(results, rule) ==
    { p \in (DOMAIN results) \X (1..20) :
        /\ p[2] \in DOMAIN results[p[1]].errors
        /\ results[p[1]].errors[p[2]].rule = rule }

RECURSIVE SumOver(_, _)
SumOver(f, S) ==
    IF S = {} THEN 0
    ELSE LET x == CHOOSE y \in S : TRUE IN f[x] + SumOver(f, S \ {x})

\* C5: the summary counts the records, the valid and the invalid ones, and
\* for every rule the errors with that rule over all records; a rule without
\* an error has no key.
C5_SummaryCounts ==
    IsBatch =>
        LET summary == ret.summary
            results == ret.results
        IN /\ summary.total_invoices = Len(last.invoices)
           /\ summary.valid_invoices
                = Cardinality({i \in DOMAIN results : results[i].is_valid})
           /\ summary.valid_invoices + summary.invalid_invoices = summary.total_invoices
           /\ DOMAIN summary.error_counts
                = {rule \in AllRules : Occurrences(results, rule) # {}}
           /\ \A rule \in DOMAIN summary.error_counts :
                 summary.error_counts[rule] = Cardinality(Occurrences(results, rule))
           /\ \A i \in DOMAIN results : RulesOf(results[i].errors) \subseteq AllRules
           /\ SumOver(summary.error_counts, DOMAIN summary.error_counts)
                = SumOver([i \in DOMAIN results |-> Len(results[i].errors)], DOMAIN results)

C5_Witness ==
    /\ IsBatch
    /\ Len(last.invoices) = 3
    /\ ret.summary.valid_invoices = 1
    /\ ret.summary.invalid_invoices = 2
    /\ "negative_quantity" \in DOMAIN ret.summary.error_counts
    /\ ret.summary.error_counts["negative_quantity"] = 4
    /\ "date_out_of_range" \notin DOMAIN ret.summary.error_counts

\* the errors of a record that do not depend on the engine's state
OwnErrors(invoice, today) ==
    _check_required_fields(invoice)
      \o _check_dates(invoice, today)
      \o _check_currency(invoice)
      \o _check_line_items_sum(invoice)
      \o _check_gross_calculation(invoice)
      \o _check_due_date(invoice)
      \o _check_non_negative(invoice)

WithoutRule(errors, rule) == SelectSeq(errors, LAMBDA e : e.rule # rule)

\* C6: validate_batch returns one result per record, in input order, each
\* with all the errors of its record; a failing record neither ends the
\* batch nor shortens the report.
C6_OneResultPerRecord ==
    IsBatch =>
        /\ Len(ret.results) = Len(last.invoices)
        /\ \A i \in DOMAIN last.invoices :
              LET invoice == last.invoices[i]
                  result == ret.results[i]
              IN /\ result.invoice_id
                      = IF invoice.invoice_number = "" THEN "UNKNOWN"
                        ELSE invoice.invoice_number
                 /\ WithoutRule(result.errors, "duplicate_invoice")
                      = OwnErrors(invoice, date_today(last.clock))
                 /\ result.warnings = _check_warnings(invoice, date_today(last.clock))

C6_Witness ==
    /\ IsBatch
    /\ Len(last.invoices) = 3
    /\ Len(ret.results) = 3
    /\ Len(ret.results[1].errors) >= 5
    /\ RulesOf(ret.results[2].errors) = {"date_out_of_range"}
    /\ RulesOf(ret.results[3].errors) = {"duplicate_invoice"}

\* the invoice of the last validate_invoice call
TheInvoice == last.invoices[1]

ItemSum(invoice) == SumLineTotals(invoice.line_items)

\* C7: line_items_sum_mismatch is reported exactly when line_items is not
\* empty and |sum of line_total - net_total| is strictly more than 1% of
\* net_total; a difference equal to the tolerance passes.
C7_LineItemsSumMismatch ==
    IsSingle =>
        RuleCount(ret.errors, "line_items_sum_mismatch")
          = IF /\ TheInvoice.line_items # << >>
               /\ 100 * Abs(ItemSum(TheInvoice) - TheInvoice.net_total)
                    > TheInvoice.net_total
            THEN 1 ELSE 0

C7_Witness ==
    /\ IsSingle
    /\ TheInvoice.net_total = 10000
    /\ Len(TheInvoice.line_items) = 2
    /\ ItemSum(TheInvoice) = 10100
    /\ RuleCount(ret.errors, "line_items_sum_mismatch") = 0

\* C8: gross_calculation_mismatch is reported exactly when
\* |net_total + tax_amount - gross_total| is strictly more than 0.5% of
\* gross_total, with or without line items.
C8_GrossCalculationMismatch ==
    IsSingle =>
        RuleCount(ret.errors, "gross_calculation_mismatch")
          = IF 200 * Abs(TheInvoice.net_total + TheInvoice.tax_amount
                           - TheInvoice.gross_total)
                 > TheInvoice.gross_total
            THEN 1 ELSE 0

C8_Witness ==
    /\ IsSingle
    /\ TheInvoice.line_items = << >>
    /\ TheInvoice.gross_total = 200
    /\ TheInvoice.net_total + TheInvoice.tax_amount = 201
    /\ RuleCount(ret.errors, "gross_calculation_mismatch") = 0

\* C9: a zero reference total leaves no tolerance: with net_total = 0 and
\* line items the sum check fires exactly for a nonzero sum, with
\* gross_total = 0 the gross check fires exactly for nonzero
\* net_total + tax_amount.
C9_ZeroTotalsZeroTolerance ==
    IsSingle =>
        /\ (TheInvoice.net_total = 0 /\ TheInvoice.line_items # << >>) =>
              ("line_items_sum_mismatch" \in RulesOf(ret.errors)
                 <=> ItemSum(TheInvoice) # 0)
        /\ TheInvoice.gross_total = 0 =>
              ("gross_calculation_mismatch" \in RulesOf(ret.errors)
                 <=> TheInvoice.net_total + TheInvoice.tax_amount # 0)

C9_Witness ==
    /\ IsSingle
    /\ TheInvoice.net_total = 0
    /\ TheInvoice.gross_total = 0
    /\ TheInvoice.tax_amount = 19
    /\ TheInvoice.line_items # << >>
    /\ ItemSum(TheInvoice) = 0
    /\ RulesOf(ret.errors) \cap {"line_items_sum_mismatch", "gross_calculation_mismatch"}
         = {"gross_calculation_mismatch"}

\* C10: the errors validate_invoice returns are the errors of the eight
\* checks, each evaluated on its own, concatenated in the order required
\* fields, dates, currency, line items sum, gross calculation, due date,
\* duplicates, non-negative.
C10_ErrorsAreConcatenation ==
    IsSingle =>
        ret.errors
          = _check_required_fields(TheInvoice)
              \o _check_dates(TheInvoice, date_today(last.clock))
              \o _check_currency(TheInvoice)
              \o _check_line_items_sum(TheInvoice)
              \o _check_gross_calculation(TheInvoice)
              \o _check_due_date(TheInvoice)
              \o _check_duplicates(last.seen_before, TheInvoice).errors
              \o _check_non_negative(TheInvoice)

C10_Witness ==
    /\ IsSingle
    /\ {"required_field_empty", "line_items_sum_mismatch", "gross_calculation_mismatch",
        "due_date_before_invoice_date", "duplicate_invoice", "negative_quantity"}
         \subseteq RulesOf(ret.errors)
    /\ ret.errors[1].rule = "required_field_empty"
    /\ ret.errors[Len(ret.errors)].rule = "negative_unit_price"

\* what thread t's batch returns when it runs alone on a fresh engine
Alone(t) == validate_batch({}, threads[t].invoices, clock)

Diverged(t) ==
    /\ threads[t].pc = "done"
    /\ threads[t].ret.results # Alone(t).results

\* C11: a concurrent validate_batch whose results differ from the results of
\* running its batch alone was run on a shared engine without serialisation:
\* with an engine instance per batch, or a critical section around the whole
\* call, every finished batch returns what it returns alone.  (That the
\* unserialised case does diverge is the reachability of C11_Witness.)
C11_SerialisedEqualsAlone ==
    \A t \in Threads :
        /\ Diverged(t) => discipline = "unserialised"
        /\ threads[t].pc = "done" /\ discipline \in {"own_engine", "critical_section"}
               => /\ threads[t].ret.results = Alone(t).results
                  /\ threads[t].ret.summary = Alone(t).summary

\* an unserialised batch in which a first occurrence is flagged duplicate
C11_Witness ==
    /\ discipline = "unserialised"
    /\ \E t \in Threads :
           /\ Diverged(t)
           /\ RuleCount(threads[t].ret.results[1].errors, "duplicate_invoice") = 1

\* an unserialised batch in which a duplicate is missed
C11_MissedDuplicate ==
    /\ discipline = "unserialised"
    /\ \E t \in Threads :
           /\ Diverged(t)
           /\ Len(threads[t].invoices) = 2
           /\ threads[t].invoices[1] = threads[t].invoices[2]
           /\ RuleCount(threads[t].ret.results[2].errors, "duplicate_invoice") = 0

\* both threads finished under a serialising discipline with a shared record
C11_SerialisedRun ==
    /\ discipline \in {"own_engine", "critical_section"}
    /\ \A t \in Threads : threads[t].pc = "done"
    /\ threads[1].invoices = << InvoiceA, InvoiceA >>
    /\ threads[2].invoices = << InvoiceA >>

TheRaw == last.invoices[1]

DateUnparseable(raw, f) ==
    /\ f \in DOMAIN raw
    /\ raw[f] # NoneRawDate
    /\ raw[f].format \notin {"date", "%Y-%m-%d"}

\* the construction failures the record model's contract lists
NegativeTotal(raw) ==
    \E f \in {"net_total", "tax_amount", "gross_total"} :
        f \in DOMAIN raw /\ raw[f] # NoneNum /\ raw[f] < 0

RequiredAbsent(raw) ==
    \/ \E f \in {"invoice_number", "seller_name", "buyer_name"} :
           f \notin DOMAIN raw \/ raw[f] = NoneStr
    \/ "invoice_date" \notin DOMAIN raw \/ raw.invoice_date = NoneRawDate
    \/ \E f \in {"net_total", "tax_amount", "gross_total"} :
           f \notin DOMAIN raw \/ raw[f] = NoneNum
    \/ \E k \in 1..Len(RawItems(raw)) :
           \/ "description" \notin DOMAIN RawItems(raw)[k]
           \/ \E f \in {"quantity", "unit_price", "line_total"} :
                  RawItems(raw)[k][f] = NoneNum

UnknownCurrency(raw) ==
    "currency" \in DOMAIN raw /\ raw.currency \notin {"EUR", "USD", "GBP", "INR"}

ListedFailure(raw) ==
    \/ NegativeTotal(raw)
    \/ RequiredAbsent(raw)
    \/ UnknownCurrency(raw)
    \/ DateUnparseable(raw, "invoice_date")
    \/ DateUnparseable(raw, "due_date")

\* C12: constructing an Invoice fails exactly when a total is negative, a
\* required field is absent, the currency is not EUR, USD, GBP or INR, or a
\* date cannot be parsed; every other record is constructed with the values
\* given, and a request whose records all construct is validated, one result
\* per record.
C12_ConstructionFailures ==
    /\ last.op = "Invoice" =>
           /\ ret.ok <=> ~ ListedFailure(TheRaw)
           /\ ret.ok => /\ ret.invoice.net_total = TheRaw.net_total
                        /\ ret.invoice.tax_amount = TheRaw.tax_amount
                        /\ ret.invoice.gross_total = TheRaw.gross_total
                        /\ ret.invoice.seller_name = TheRaw.seller_name
                        /\ ret.invoice.buyer_name = TheRaw.buyer_name
                        /\ Len(ret.invoice.line_items) = Len(RawItems(TheRaw))
    /\ last.op = "validate_json" =>
           IF \E k \in 1..Len(last.invoices) : ListedFailure(last.invoices[k])
           THEN ret = UnprocessableEntity
           ELSE /\ ret.status = 200
                /\ Len(ret.results) = Len(last.invoices)

\* a record with a blank buyer name and negative line items is constructed
\* and validated
C12_Witness ==
    /\ last.op = "validate_json"
    /\ last.invoices = << NegativeItemsRaw >>
    /\ ret.status = 200
    /\ RuleCount(ret.results[1].errors, "negative_quantity") = 2

C12_ZeroTotalsConstruct ==
    /\ last.op = "Invoice" /\ TheRaw = ZeroRaw /\ ret.ok

C12_NegativeTotalFails ==
    /\ last.op = "Invoice" /\ TheRaw = NegativeTotalRaw /\ ~ ret.ok

TheDoc == last.invoices[1]

\* C13: every record the extraction produces from a document, whichever
\* fields it failed to recover, constructs as an Invoice, and the uploaded
\* documents are validated, one result per document.
C13_ExtractedRecordConstructs ==
    /\ last.op = "extract" => ret.ok
    /\ last.op = "extract_and_validate_pdfs" /\ last.invoices # << >> =>
           /\ ret.status = 200
           /\ Len(ret.validation_results) = Len(last.invoices)

\* an extraction that recovered no invoice date
C13_DateLost ==
    /\ last.op = "extract"
    /\ GetDate(_extract_basic_fields(TheDoc), "invoice_date") = NoneRawDate
    /\ ~ ret.ok

\* an extraction that recovered an invoice date but not every other field
C13_OthersLost ==
    /\ last.op = "extract"
    /\ GetDate(_extract_basic_fields(TheDoc), "invoice_date") # NoneRawDate
    /\ TheDoc \in {TotalsLostDoc, WithoutField(BaseDoc, "seller_name"),
                   WithoutField(BaseDoc, "due_date")}
    /\ ret.ok

\* extraction fails only on a lost invoice date
C13_FailsOnlyOnDate ==
    last.op = "extract" =>
        (ret.ok <=> GetDate(_extract_basic_fields(TheDoc), "invoice_date")
                        # NoneRawDate)

IdentityKey(invoice) ==
    << invoice.invoice_number, invoice.seller_name, StrDate(invoice.invoice_date) >>

ValidateInvoiceFrame ==
    IsSingle =>
        IF IdentityKey(TheInvoice) \in last.seen_before
        THEN /\ seen_invoices = last.seen_before
             /\ RuleCount(ret.errors, "duplicate_invoice") = 1
        ELSE /\ seen_invoices = last.seen_before \cup {IdentityKey(TheInvoice)}
             /\ RuleCount(ret.errors, "duplicate_invoice") = 0

SecondCallIsDuplicate ==
    /\ IsSingle' => seen_invoices \subseteq seen_invoices'
    /\ IsSingle /\ IsSingle' /\ last'.invoices = last.invoices
           => RuleCount(ret'.errors, "duplicate_invoice") = 1

\* C14: validate_invoice changes the engine state in exactly one way: a key
\* not yet in seen_invoices is added and no duplicate_invoice error is
\* reported; a key already there leaves seen_invoices unchanged and reports
\* exactly one; seen_invoices never shrinks across a validate_invoice call,
\* and the second of two consecutive direct calls on one record reports a
\* duplicate.
C14_ValidateInvoiceFrame ==
    /\ [] ValidateInvoiceFrame
    /\ [][SecondCallIsDuplicate]_vars

\* a direct call on a record whose key an earlier direct call recorded
C14_Witness ==
    /\ IsSingle
    /\ last.seen_before = {IdentityKey(TheInvoice)}
    /\ seen_invoices = last.seen_before
    /\ RuleCount(ret.errors, "duplicate_invoice") = 1

Called(name) == last.op = name

EightFields ==
    {"invoice_number", "invoice_date", "seller_name", "buyer_name",
     "currency", "net_total", "tax_amount", "gross_total"}

Absent(invoice, f) ==
    IF f \in {"invoice_number", "seller_name", "buyer_name", "currency"}
    THEN invoice[f] = NoneStr
    ELSE IF f = "invoice_date" THEN invoice[f] = NoneDate
    ELSE invoice[f] = NoneNum

Blank(invoice, f) ==
    /\ f \in {"invoice_number", "seller_name", "buyer_name", "currency"}
    /\ invoice[f] \in {"", " ", "   "}

Entries(errors, rule, message) ==
    Cardinality({i \in DOMAIN errors :
                    errors[i].rule = rule /\ errors[i].message = message})

\* C15: for each of the eight required fields the required-field check
\* reports exactly one required_field_missing when the field is None, exactly
\* one required_field_empty when it is an empty or whitespace-only string, and
\* nothing otherwise; a total of 0 is neither missing nor empty.
C15_RequiredFields ==
    Called("_check_required_fields") =>
        /\ \A f \in EightFields :
               /\ Entries(ret, "required_field_missing",
                          "Missing required field: " \o f)
                      = IF Absent(TheInvoice, f) THEN 1 ELSE 0
               /\ Entries(ret, "required_field_empty",
                          "Required field is empty: " \o f)
                      = IF Blank(TheInvoice, f) THEN 1 ELSE 0
        /\ Len(ret) = Cardinality({f \in EightFields :
                                      Absent(TheInvoice, f) \/ Blank(TheInvoice, f)})

\* a record with a None field, a blank field and a zero total
C15_Witness ==
    /\ Called("_check_required_fields")
    /\ TheInvoice.net_total = 0
    /\ TheInvoice.seller_name = "   "
    /\ Len(ret) = 1
    /\ ret[1].rule = "required_field_empty"

C15_MissingAndZero ==
    /\ Called("_check_required_fields")
    /\ TheInvoice.tax_amount = 0
    /\ TheInvoice.invoice_date = NoneDate
    /\ Len(ret) = 1
    /\ ret[1].rule = "required_field_missing"

RECURSIVE ItemRules(_)
ItemRules(items) ==
    IF items = <<>> THEN <<>>
    ELSE (IF items[1].quantity < 0 THEN << "negative_quantity" >> ELSE <<>>)
         \o (IF items[1].unit_price < 0 THEN << "negative_unit_price" >> ELSE <<>>)
         \o ItemRules(Tail(items))

IsItemError(e) == e.rule \in {"negative_quantity", "negative_unit_price"}

RulesInOrder(errors) == [i \in DOMAIN errors |-> errors[i].rule]

\* C16: the non-negative check reports, item by item in list order, one
\* negative_quantity for a quantity < 0 and then one negative_unit_price for a
\* unit_price < 0, and one negative_amount for each of net_total, tax_amount
\* and gross_total that is < 0, and nothing else; a record whose line items
\* are negative is not rejected at construction.
C16_NonNegative ==
    /\ Called("_check_non_negative") =>
           /\ RulesInOrder(SelectSeq(ret, IsItemError)) = ItemRules(TheInvoice.line_items)
           /\ \A f \in {"net_total", "tax_amount", "gross_total"} :
                  Cardinality({i \in DOMAIN ret :
                                  /\ ret[i].rule = "negative_amount"
                                  /\ ret[i].message = f \o " cannot be negative (value: "
                                                        \o FmtFloat(TheInvoice[f]) \o ")"})
                      = IF TheInvoice[f] < 0 THEN 1 ELSE 0
           /\ Len(ret) = Len(ItemRules(TheInvoice.line_items))
                           + Cardinality({f \in {"net_total", "tax_amount", "gross_total"} :
                                             TheInvoice[f] < 0})
    /\ Called("Invoice") =>
           /\ ret.ok
           /\ RulesInOrder(_check_non_negative(ret.invoice))
                  = ItemRules(TheRaw.line_items)

\* an item negative in both fields after an item negative in neither
C16_Witness ==
    /\ Called("_check_non_negative")
    /\ Len(TheInvoice.line_items) = 2
    /\ TheInvoice.net_total < 0
    /\ RulesInOrder(ret) = << "negative_amount", "negative_quantity",
                              "negative_unit_price" >>

C16_NegativeItemsConstruct ==
    /\ Called("Invoice")
    /\ ret.ok
    /\ Len(_check_non_negative(ret.invoice)) = 4

\* C17: due_date_before_invoice_date is reported exactly when both dates are
\* present and due_date < invoice_date; equal dates and an absent due_date
\* report nothing.
C17_DueDate ==
    Called("_check_due_date") =>
        /\ RuleCount(ret, "due_date_before_invoice_date")
               = IF /\ TheInvoice.due_date # NoneDate
                    /\ TheInvoice.invoice_date # NoneDate
                    /\ TheInvoice.due_date < TheInvoice.invoice_date
                 THEN 1 ELSE 0
        /\ Len(ret) = RuleCount(ret, "due_date_before_invoice_date")

\* due_date the day before invoice_date
C17_Witness ==
    /\ Called("_check_due_date")
    /\ TheInvoice.due_date = TheInvoice.invoice_date - 1
    /\ Len(ret) = 1

C17_EqualDates ==
    /\ Called("_check_due_date")
    /\ TheInvoice.due_date = TheInvoice.invoice_date
    /\ Len(ret) = 0

DaysFromToday(invoice) ==
    IF date_today(last.clock) >= invoice.invoice_date
    THEN date_today(last.clock) - invoice.invoice_date
    ELSE invoice.invoice_date - date_today(last.clock)

\* C18: date_out_of_range is reported exactly when invoice_date is present
\* and strictly more than 3650 days from the current date, before or after;
\* 3650 days exactly is in range, and due_date is never range-checked.
C18_DateOutOfRange ==
    Called("_check_dates") =>
        /\ RuleCount(ret, "date_out_of_range")
               = IF /\ TheInvoice.invoice_date >= 1
                    /\ DaysFromToday(TheInvoice) > 3650
                 THEN 1 ELSE 0
        /\ Len(ret) = RuleCount(ret, "date_out_of_range")
                         + RuleCount(ret, "invalid_date_format")

\* an invoice dated 3651 days ahead
C18_Witness ==
    /\ Called("_check_dates")
    /\ TheInvoice.invoice_date = date_today(last.clock) + 3651
    /\ RuleCount(ret, "date_out_of_range") = 1

C18_EdgeInRange ==
    /\ Called("_check_dates")
    /\ TheInvoice.invoice_date = date_today(last.clock) - 3650
    /\ TheInvoice.due_date = date_today(last.clock) - 5000
    /\ Len(ret) = 0

WarningRules ==
    {"no_line_items", "missing_seller_tax_id", "missing_due_date", "old_invoice"}

ExpectedWarnings(invoice, today) ==
    {rule \in WarningRules :
        \/ rule = "no_line_items" /\ Len(invoice.line_items) = 0
        \/ rule = "missing_seller_tax_id" /\ invoice.seller_tax_id \in {NoneStr, ""}
        \/ rule = "missing_due_date" /\ invoice.due_date = NoneDate
        \/ rule = "old_invoice" /\ today - invoice.invoice_date > 365}

WarningsAsClaimed(invoice, result, today) ==
    /\ RulesOf(result.warnings) = ExpectedWarnings(invoice, today)
    /\ Len(result.warnings) = Cardinality(ExpectedWarnings(invoice, today))
    /\ \A i \in DOMAIN result.warnings : result.warnings[i].severity = "warning"
    /\ \A i \in DOMAIN result.errors : result.errors[i].severity = "error"
    /\ RulesOf(result.errors) \cap WarningRules = {}

\* C19: the warnings of a result are no_line_items exactly when line_items
\* is empty, missing_seller_tax_id exactly when seller_tax_id is absent or
\* empty, missing_due_date exactly when due_date is absent, old_invoice
\* exactly when invoice_date is more than 365 days before the current date,
\* each once and nothing else; every warning has severity warning, every
\* error severity error, and no warning rule is among the errors or the
\* summary's error_counts.
C19_Warnings ==
    /\ IsSingle =>
           WarningsAsClaimed(TheInvoice, ret, date_today(last.clock))
    /\ IsBatch =>
           /\ \A k \in DOMAIN last.invoices :
                  WarningsAsClaimed(last.invoices[k], ret.results[k],
                                    date_today(last.clock))
           /\ DOMAIN ret.summary.error_counts \cap WarningRules = {}

\* a batch with an invalid invoice that has warnings and a valid one with
\* all four
C19_Witness ==
    /\ IsBatch
    /\ Len(ret.results) = 2
    /\ ~ ret.results[1].is_valid
    /\ Len(ret.results[1].warnings) = 2
    /\ ret.results[2].is_valid
    /\ Len(ret.results[2].warnings) = 4
    /\ DOMAIN ret.summary.error_counts = {"gross_calculation_mismatch"}

C19_FutureNotOld ==
    /\ IsSingle
    /\ TheInvoice.invoice_date = date_today(last.clock) + 400
    /\ RulesOf(ret.warnings) = {"no_line_items"}

C19_EdgeNotOld ==
    /\ IsSingle
    /\ TheInvoice.invoice_date = date_today(last.clock) - 365
    /\ ret.warnings = << >>

Totals == {"net_total", "tax_amount", "gross_total"}

\* amount texts that are no number
UnreadableAmounts ==
    {<< "1", ".", "2", ".", "3" >>, << "." >>, << "," >>, << ".", ",", "." >>}

NotRecovered(doc, f) ==
    f \notin DOMAIN doc.fields \/ doc.fields[f] \in UnreadableAmounts

AllDefaulted(invoice) ==
    /\ \A f \in Totals : invoice[f] = 0
    /\ invoice.line_items = << >>

SparedRules ==
    {"required_field_missing", "line_items_sum_mismatch",
     "gross_calculation_mismatch", "negative_amount"}

C20_UnreadableTotals ==
    /\ Called("extract")
    /\ \A f \in Totals : f \in DOMAIN TheDoc.fields /\ NotRecovered(TheDoc, f)
    /\ ret.ok
    /\ \A f \in Totals : ret.invoice[f] = 0

UnreachableRules ==
    {"required_field_missing", "invalid_date_format", "invalid_currency",
     "negative_amount"}

\* the invoices a request constructed and their results
ConstructedInvoices ==
    IF Called("validate_json") THEN ret.invoices ELSE ret.extracted

ConstructedResults ==
    IF Called("validate_json") THEN ret.results ELSE ret.validation_results

\* C21: an invoice constructed through the record model, from a raw record
\* or by extraction, never gets required_field_missing, invalid_date_format,
\* invalid_currency or negative_amount from validation: its required fields
\* are not None, its dates are dates, its currency is a member of the enum
\* (EUR when the record gave none) and its totals are not negative.
C21_ConstructedNeverFlagged ==
    (Called("validate_json") \/ Called("extract_and_validate_pdfs"))
        /\ ret.status = 200 =>
            \A k \in DOMAIN ConstructedResults :
                /\ RulesOf(ConstructedResults[k].errors) \cap UnreachableRules = {}
                /\ \A f \in EightFields : ~ Absent(ConstructedInvoices[k], f)
                /\ ConstructedInvoices[k].currency \in {"EUR", "USD", "GBP", "INR"}
                /\ "currency" \notin DOMAIN last.invoices[k]
                       => ConstructedInvoices[k].currency = "EUR"

\* a record without a currency, validated as EUR with no error
C21_Witness ==
    /\ Called("validate_json")
    /\ last.invoices = << Without(BaseRaw, "currency") >>
    /\ ret.status = 200
    /\ ret.invoices[1].currency = "EUR"
    /\ ret.results[1].is_valid

\* a constructed record with blank names still gets required_field_empty
C21_BlankStillFlagged ==
    /\ Called("validate_json")
    /\ ret.status = 200
    /\ RulesOf(ret.results[1].errors) = {"required_field_empty"}

IsResponse ==
    /\ Called("validate_json") \/ Called("extract_and_validate_pdfs")
    /\ ret.status = 200

\* C22: on the service's one engine, the results a request gets are those its
\* own list gets on a fresh engine, whatever requests were handled before it
\* and whatever requests are in flight: a record is flagged
\* duplicate_invoice exactly when an earlier record of the same request has
\* its number, seller and date.
C22_RequestsIndependent ==
    IsResponse =>
        /\ ConstructedResults
               = validate_batch({}, ConstructedInvoices, last.clock).results
        /\ \A k \in DOMAIN ConstructedResults :
               RuleCount(ConstructedResults[k].errors, "duplicate_invoice")
                   = IF \E j \in 1..(k - 1) :
                            SameIdentity(ConstructedInvoices[j], ConstructedInvoices[k])
                     THEN 1 ELSE 0

\* a response to a request whose record an earlier request had submitted,
\* while the other client's request is in flight
C22_Witness ==
    /\ IsResponse
    /\ Len(ConstructedInvoices) = 2
    /\ IdentityKey(ConstructedInvoices[1]) \in last.seen_before
    /\ \E c \in Clients : inflight[c] # NoRequest
    /\ RuleCount(ConstructedResults[1].errors, "duplicate_invoice") = 0
    /\ RuleCount(ConstructedResults[2].errors, "duplicate_invoice") = 1

====
